---- MODULE Spec2Model ----
(***************************************************************************)
(* Telemetry transport and decoding layer of the NoLimits 2 interface:     *)
(* the UDP packet parser (telemetry_parser.py), the frame types            *)
(* (data_structures.py), the streaming connector (nlc2_connector.py) and   *)
(* the TCP request client (nl2_tcp_client.py).                             *)
(*                                                                         *)
(* Numbers.  A Python float is a record [fin, v, root, den]: fin is FALSE  *)
(* for NaN and the infinities; a finite value is v / den, or the square    *)
(* root of v when root is TRUE (the result of magnitude(), kept exact).    *)
(* An Optional[T] is a sequence of length 0 (None) or 1.                   *)
(***************************************************************************)
EXTENDS Integers, Sequences, FiniteSets, TLC

\* ------------------------------------------------------------------ bounds
\* Largest frame number the modelled peer puts in a packet header.
MaxFrame == 7
\* Number of packets the parser specification feeds to one parser.
MaxParsed == 4
\* Number of Thread objects one connector may create (two per start()).
MaxThreads == 4
\* Number of socket objects one connector may create (one per connect()).
MaxSockets == 2
\* Caps of the packets_received and packets_sent counters.
MaxReceived == 1
MaxSent == 1
\* Number of get_latest_state calls the consumer makes.
MaxConsumerCalls == 1
\* Number of frames the receive loop takes to its enqueue step in the
\* delivery specification, and of datagrams it receives besides them.
MaxAccepted == 102
MaxOther == 1
\* Number of datagrams the receive loop decodes beside the TCP client.
MaxDecoded == 2

\* ------------------------------------------------------- program constants
MSG_GET_VERSION == 1
MSG_VERSION == 2
MSG_GET_TELEMETRY == 3
MSG_TELEMETRY == 4
MIN_HEADER_SIZE == 8
MIN_PAYLOAD_SIZE == 72
POSITION_LIMIT == 10000
SPEED_LIMIT == 200
G_FORCE_LIMIT == 50
STATE_MESSAGE_TYPE == 1
QUEUE_MAXSIZE == 100
REPLY_ERROR == 2
REPLY_VERSION == 4
REPLY_TELEMETRY == 6
MIN_MESSAGE_SIZE == 10
TELEMETRY_SIZE == 76

\* ------------------------------------------------------------------ floats
Fl(n) == [fin |-> TRUE, v |-> n, root |-> FALSE, den |-> 1]
NaN == [fin |-> FALSE, v |-> 0, root |-> FALSE, den |-> 1]
PosInf == [fin |-> FALSE, v |-> 1, root |-> FALSE, den |-> 1]
\* a * num / den for a rational a; NaN and the infinities stay what they are
Scaled(a, num, den) ==
    IF a.fin /\ ~a.root THEN [a EXCEPT !.v = a.v * num, !.den = a.den * den] ELSE a
\* np.isfinite
isfinite(a) == a.fin
\* a > k for a finite a and an integer k >= 0
Gt(a, k) == IF a.root THEN a.v > k * k ELSE a.v > k * a.den
\* abs(a) > k for a finite, rational a
AbsGt(a, k) == a.v > k * a.den \/ a.v < 0 - k * a.den

None == << >>
Some(x) == << x >>

\* ---------------------------------------------------------- Vector3D
Vector3D(x, y, z) == [x |-> x, y |-> y, z |-> z]
\* Vector3D.magnitude: sqrt(x**2 + y**2 + z**2)
magnitude(vec) ==
    IF vec.x.fin /\ vec.y.fin /\ vec.z.fin
    THEN [fin |-> TRUE, v |-> vec.x.v * vec.x.v + vec.y.v * vec.y.v + vec.z.v * vec.z.v,
          root |-> TRUE, den |-> 1]
    ELSE IF (~vec.x.fin /\ vec.x = NaN) \/ (~vec.y.fin /\ vec.y = NaN) \/ (~vec.z.fin /\ vec.z = NaN)
         THEN NaN ELSE PosInf

\* ---------------------------------------------------------- Quaternion
\* A quaternion is its four components over a common divisor sqrt(n2):
\* normalize() divides by the norm, which is kept symbolic.
Quaternion(w, x, y, z) == [w |-> w, x |-> x, y |-> y, z |-> z, n2 |-> 1]
\* normalize without its zero case: a zero quaternion is divided by zero.
NormalizeDividing(q) ==
    LET fin == q.w.fin /\ q.x.fin /\ q.y.fin /\ q.z.fin
        mag2 == q.w.v * q.w.v + q.x.v * q.x.v + q.y.v * q.y.v + q.z.v * q.z.v
    IN  IF ~fin \/ mag2 = 0
        THEN [w |-> NaN, x |-> NaN, y |-> NaN, z |-> NaN, n2 |-> 1]
        ELSE [q EXCEPT !.n2 = mag2]

\* Quaternion.normalize
normalize(q) ==
    LET fin == q.w.fin /\ q.x.fin /\ q.y.fin /\ q.z.fin
        mag2 == q.w.v * q.w.v + q.x.v * q.x.v + q.y.v * q.y.v + q.z.v * q.z.v
    IN  IF ~fin
        THEN [w |-> NaN, x |-> NaN, y |-> NaN, z |-> NaN, n2 |-> 1]
        ELSE IF mag2 = 0
             THEN Quaternion(Fl(1), Fl(0), Fl(0), Fl(0))
             ELSE [q EXCEPT !.n2 = mag2]

\* ---------------------------------------------------------- CoasterState
\* CoasterState.is_valid
is_valid(s) ==
    LET values == << s.timestamp,
                     s.position.x, s.position.y, s.position.z,
                     s.velocity.x, s.velocity.y, s.velocity.z,
                     s.acceleration.x, s.acceleration.y, s.acceleration.z,
                     s.orientation.w, s.orientation.x, s.orientation.y, s.orientation.z,
                     s.g_force.x, s.g_force.y, s.g_force.z,
                     s.speed >>
    IN  IF ~(\A i \in DOMAIN values : isfinite(values[i]))
        THEN FALSE
        ELSE IF AbsGt(s.position.x, POSITION_LIMIT) \/ AbsGt(s.position.y, POSITION_LIMIT)
                \/ AbsGt(s.position.z, POSITION_LIMIT)
        THEN FALSE
        ELSE IF Gt(s.speed, SPEED_LIMIT)
        THEN FALSE
        ELSE IF Gt(magnitude(s.g_force), G_FORCE_LIMIT)
        THEN FALSE
        ELSE TRUE

\* ---------------------------------------------------------- TelemetryMessage
TelemetryMessage(message_type, frame_number, state) ==
    [message_type |-> message_type, frame_number |-> frame_number, state |-> state]

\* TelemetryMessage.is_state_message
is_state_message(m) == m.message_type = STATE_MESSAGE_TYPE /\ m.state # None

\* ---------------------------------------------------------- UDP packets
\* A telemetry payload (the bytes after the header): its length in bytes, the
\* sixteen little-endian floats, the view mode and the trailing float.
Payload(len, f, view_mode, ts) == [len |-> len, f |-> f, view_mode |-> view_mode, ts |-> ts]

\* A datagram: total length, and the header and payload when long enough.
Datagram(message_id, frame_number, payload) ==
    [len |-> MIN_HEADER_SIZE + payload.len, message_id |-> message_id,
     frame_number |-> frame_number, payload |-> payload]

ZeroFloats == [i \in 1..16 |-> Fl(0)]
\* position (100,50,200), velocity (10,5,2), acceleration (1,0,0),
\* quaternion floats (1,0,0,0), g-force (0,0,1)
RideFloats ==
    << Fl(100), Fl(50), Fl(200), Fl(10), Fl(5), Fl(2), Fl(1), Fl(0), Fl(0),
       Fl(1), Fl(0), Fl(0), Fl(0), Fl(0), Fl(0), Fl(1) >>

EmptyPayload == Payload(0, ZeroFloats, 0, Fl(0))
RidePayload == Payload(MIN_PAYLOAD_SIZE, RideFloats, 0, Fl(1))
ZeroPayload == Payload(MIN_PAYLOAD_SIZE, ZeroFloats, 0, Fl(0))
ShortPayload == Payload(MIN_PAYLOAD_SIZE - 1, RideFloats, 0, Fl(1))
FarPayload == Payload(MIN_PAYLOAD_SIZE, [RideFloats EXCEPT ![1] = Fl(1000000)], 0, Fl(1))
NaNPayload == Payload(MIN_PAYLOAD_SIZE, [RideFloats EXCEPT ![4] = NaN], 0, Fl(1))

\* A datagram shorter than the header.
RuntDatagram == [len |-> 2, message_id |-> 0, frame_number |-> 0, payload |-> EmptyPayload]

\* ---------------------------------------------------------- TelemetryParser
\* TelemetryParser._parse_telemetry_data
parse_telemetry_data(data) ==
    IF data.len < MIN_PAYLOAD_SIZE
    THEN None
    ELSE LET unpacked == data.f
             position == Vector3D(unpacked[1], unpacked[2], unpacked[3])
             velocity == Vector3D(unpacked[4], unpacked[5], unpacked[6])
             acceleration == Vector3D(unpacked[7], unpacked[8], unpacked[9])
             orientation == Quaternion(unpacked[10], unpacked[11], unpacked[12], unpacked[13])
             g_force == Vector3D(unpacked[14], unpacked[15], unpacked[16])
             state == [timestamp |-> data.ts,
                       position |-> position,
                       velocity |-> velocity,
                       acceleration |-> acceleration,
                       orientation |-> normalize(orientation),
                       g_force |-> g_force,
                       speed |-> magnitude(velocity),
                       view_mode |-> data.view_mode,
                       train_index |-> 0]
         IN  IF ~is_valid(state) THEN None ELSE Some(state)

\* The gap counted from the last frame itself instead of the expected one.
CountDroppedFromLast(last, dropped, frame_number) ==
    IF last >= 0 /\ frame_number > last + 1
    THEN dropped + (frame_number - last)
    ELSE dropped

\* The frame-gap rule of parse_packet: the new value of dropped_frames.
CountDropped(last, dropped, frame_number) ==
    IF last >= 0
    THEN LET expected == last + 1
         IN  IF frame_number # expected /\ frame_number > expected
             THEN dropped + (frame_number - expected)
             ELSE dropped
    ELSE dropped

\* TelemetryParser.parse_packet on parser state p = [last_frame_number,
\* dropped_frames]: the new parser state and the returned Optional message.
parse_packet(p, data) ==
    IF data.len < MIN_HEADER_SIZE
    THEN [parser |-> p, message |-> None]
    ELSE [parser |-> [last_frame_number |-> data.frame_number,
                      dropped_frames |-> CountDropped(p.last_frame_number, p.dropped_frames,
                                                      data.frame_number)],
          message |->
              IF data.message_id = MSG_TELEMETRY
              THEN Some(TelemetryMessage(data.message_id, data.frame_number,
                                         parse_telemetry_data(data.payload)))
              ELSE Some(TelemetryMessage(data.message_id, data.frame_number, None))]

\* TelemetryParser.__init__
NewParser == [last_frame_number |-> 0 - 1, dropped_frames |-> 0]

\* ---------------------------------------------------------- NL2TelemetryClient
\* A telemetry body: its length in bytes and, of its first 76 bytes, the
\* integers and floats that _parse_telemetry_data reads.
Telemetry(len, rendered_frame, view_mode, current_train, speed, pos, quat, g) ==
    [len |-> len, rendered_frame |-> rendered_frame, view_mode |-> view_mode,
     current_train |-> current_train, speed |-> speed, pos |-> pos, quat |-> quat, g |-> g]

\* A reply on the stream: magic start, type, request id, size field, body,
\* magic end.
Reply(start, type_id, data_size, body, end) ==
    [len |-> 9 + body.len + 1, start |-> start, type_id |-> type_id, request_id |-> 0,
     data_size |-> data_size, body |-> body, end |-> end]

RideTelemetry ==
    Telemetry(TELEMETRY_SIZE, 120, 1, 0, Fl(25),
              << Fl(100), Fl(50), Fl(200) >>, << Fl(0), Fl(0), Fl(0), Fl(1) >>,
              << Fl(0), Fl(1), Fl(0) >>)
FarTelemetry == [RideTelemetry EXCEPT !.pos = << Fl(1000000), Fl(50), Fl(200) >>]
FastTelemetry == [RideTelemetry EXCEPT !.speed = Fl(201)]
NaNTelemetry == [RideTelemetry EXCEPT !.g = << NaN, Fl(1), Fl(0) >>]
ShortTelemetry == [RideTelemetry EXCEPT !.len = 40]
NoBody == [RideTelemetry EXCEPT !.len = 0]

\* A reply cut off inside its header.
RuntReply == [Reply("N", REPLY_TELEMETRY, 0, NoBody, "L") EXCEPT !.len = 4]

\* NL2TelemetryClient._parse_message: None, or the fields of the message,
\* data being data[9:9+data_size]
parse_message(data) ==
    IF data.len < MIN_MESSAGE_SIZE
    THEN None
    ELSE IF data.start # "N" \/ data.end # "L"
    THEN None
    ELSE Some([type_id |-> data.type_id, request_id |-> data.request_id,
               data_size |-> data.data_size,
               data |-> [data.body EXCEPT !.len =
                            IF data.data_size < data.len - 9 THEN data.data_size
                            ELSE data.len - 9]])

\* The frame _parse_telemetry_data builds from the first 76 bytes.
BuildState(data) ==
    [timestamp |-> Scaled(Fl(data.rendered_frame), 1, 60),
     position |-> Vector3D(data.pos[1], data.pos[2], data.pos[3]),
     velocity |-> Vector3D(Fl(0), Fl(0), data.speed),
     acceleration |-> Vector3D(Scaled(data.g[1], 981, 100), Scaled(data.g[2], 981, 100),
                               Scaled(data.g[3], 981, 100)),
     orientation |-> Quaternion(data.quat[4], data.quat[1], data.quat[2], data.quat[3]),
     g_force |-> Vector3D(data.g[1], data.g[2], data.g[3]),
     speed |-> data.speed,
     view_mode |-> data.view_mode,
     train_index |-> data.current_train]

\* The frame returned whether valid or not.
TcpParseUnchecked(data) ==
    IF data.len < TELEMETRY_SIZE THEN None ELSE Some(BuildState(data))

\* NL2TelemetryClient._parse_telemetry_data
TcpParseTelemetryData(data) ==
    IF data.len < TELEMETRY_SIZE
    THEN None
    ELSE IF is_valid(BuildState(data)) THEN Some(BuildState(data)) ELSE None

\* NL2TelemetryClient.get_telemetry from the response on: what it returns
TelemetryOf(response) ==
    LET parsed == parse_message(response)
    IN  IF parsed = None
        THEN None
        ELSE IF parsed[1].type_id # REPLY_TELEMETRY
        THEN None
        ELSE TcpParseTelemetryData(parsed[1].data)

VARIABLES
    parser,           \* connector.parser: [last_frame_number, dropped_frames]
    socket,           \* connector.socket: Optional socket id
    open_socks,       \* the socket objects created and not yet closed
    is_connected,     \* connector.is_connected
    is_running,       \* connector.is_running
    stop_event,       \* connector._stop_event is set
    receive_thread,   \* connector._receive_thread: Optional thread id
    request_thread,   \* connector._request_thread: Optional thread id
    threads,          \* every Thread object made by start(): [kind, pc, sock, message]
    state_queue,      \* connector.state_queue, oldest first
    state_callback,   \* connector.state_callback is set
    packets_received, \* connector.packets_received
    packets_sent,     \* connector.packets_sent
    callers,          \* the threads calling the public methods:
                      \* [pc, op, in_disconnect, ret, join_on] and the history
                      \* alone: no other caller was inside a method meanwhile
    latest,           \* what the last get_latest_state call returned
    cb_last,          \* history: the frame last passed to the callback
    cb_raised,        \* history: the last callback invocation raised
    accepted,         \* history: frames the receive loop has taken to its enqueue step
    consumer_calls,   \* the consumer: get_latest_state calls it has made
    enq_q0,           \* history: the queue when the enqueue step in progress began
    enq_alone,        \* history: no consumer has touched the queue since it began
    arrivals,         \* history: the frame numbers parse_packet has seen, in order
    client,           \* the TCP client: [socket, is_connected]
    returned,         \* what the last get_telemetry call returned
    tcp_last,         \* history: the last call on the TCP client and how it went
    probe,            \* a function applied on its own: [op, input, output]
    status,           \* the thread inside get_connection_status: [pc, stats, snap]
    stream            \* the TCP connection and the get_telemetry call on it:
                      \* [pc, request_id, sent, unanswered, inbox] and the
                      \* history from: the request the decoded reply answers

connector_vars ==
    << socket, open_socks, is_connected, is_running, stop_event, receive_thread,
       request_thread, threads, state_queue, state_callback, packets_received,
       packets_sent >>
history_vars == << latest, cb_last, cb_raised, enq_q0, enq_alone, accepted, consumer_calls >>
client_vars == << client, returned, tcp_last >>
observer_vars == << status, stream >>
vars == << parser, connector_vars, callers, history_vars, arrivals, client_vars, probe, observer_vars >>

\* A call on the TCP client: the method, what ended it, whether it sent a
\* request, whether it closed a socket and whether close() raised; seq
\* tells one call from the next and prev is the call before it.
TcpCall(op, cause, sent, closed, raised) ==
    [op |-> op, cause |-> cause, sent |-> sent, closed |-> closed, raised |-> raised,
     seq |-> 1 - tcp_last.seq, prev |-> << tcp_last.op, tcp_last.raised >>]
NoCall ==
    [op |-> "-", cause |-> "-", sent |-> FALSE, closed |-> FALSE, raised |-> FALSE, seq |-> 0,
     prev |-> << "-", FALSE >>]

\* ------------------------------------------------------------ connector
Callers == {"main", "aux"}
ThreadIds == 1..MaxThreads

NoThread == [kind |-> "none", pc |-> "unborn", sock |-> None, message |-> None]
IdleCaller ==
    [pc |-> "idle", op |-> "-", in_disconnect |-> FALSE, ret |-> "-", join_on |-> None,
     alone |-> TRUE]

\* No function is being applied on its own.
NoProbe == [op |-> "-", input |-> << >>, output |-> << >>]

\* No thread is inside get_connection_status.
NoStatus == [pc |-> "idle", stats |-> None, snap |-> << >>]

\* No request was sent on the TCP connection.
NoStream ==
    [pc |-> "idle", request_id |-> 0, sent |-> 0, unanswered |-> << >>, inbox |-> << >>,
     from |-> None]

\* NLC2Connector.__init__ and NL2TelemetryClient.__init__
Constructed ==
    /\ parser = NewParser
    /\ socket = None
    /\ open_socks = {}
    /\ is_connected = FALSE
    /\ is_running = FALSE
    /\ stop_event = FALSE
    /\ receive_thread = None
    /\ request_thread = None
    /\ threads = [t \in ThreadIds |-> NoThread]
    /\ state_queue = << >>
    /\ state_callback = FALSE
    /\ packets_received = 0
    /\ packets_sent = 0
    /\ callers = [c \in Callers |-> IdleCaller]
    /\ latest = None
    /\ cb_last = None
    /\ cb_raised = FALSE
    /\ enq_q0 = << >>
    /\ enq_alone = TRUE
    /\ accepted = 0
    /\ consumer_calls = 0
    /\ arrivals = << >>
    /\ client = [socket |-> None, is_connected |-> FALSE]
    /\ returned = None
    /\ tcp_last = NoCall
    /\ status = NoStatus
    /\ stream = NoStream

Init == Constructed /\ probe = NoProbe

\* ------------------------------------------------- the parser on its own
ParserInit == Init

\* One call of parse_packet on any header the peer can send.
ParsePacket(data) ==
    /\ Len(arrivals) < MaxParsed
    /\ parser' = parse_packet(parser, data).parser
    /\ arrivals' = IF data.len < MIN_HEADER_SIZE THEN arrivals
                   ELSE Append(arrivals, data.frame_number)
    /\ UNCHANGED << connector_vars, callers, history_vars, client_vars, probe, observer_vars >>

ParserDatagrams ==
    { Datagram(id, n, EmptyPayload) : id \in {MSG_VERSION, MSG_TELEMETRY}, n \in 0..MaxFrame }
        \cup { RuntDatagram }

ParserNext == \E data \in ParserDatagrams : ParsePacket(data)

SpecParser == ParserInit /\ [][ParserNext]_vars

\* The set of frame numbers seen so far.
Seen == { arrivals[i] : i \in DOMAIN arrivals }
SetMax(S) == CHOOSE m \in S : \A k \in S : k <= m
SetMin(S) == CHOOSE m \in S : \A k \in S : m <= k

\* C8: frame-gap rule.  A header with frame number n, arriving after a
\* header with frame number last, raises the dropped-frame total by exactly
\* n - last - 1 when n > last + 1 and leaves it alone when n <= last + 1; the
\* first header adds nothing; the total never decreases; and after the
\* arrivals 1,2,3,7 the total is exactly 3.
C8_FrameGapRule ==
    [][ /\ parser'.dropped_frames >= parser.dropped_frames
        /\ (Len(arrivals') = Len(arrivals) + 1 =>
               LET n == arrivals'[Len(arrivals')]
               IN  IF arrivals = << >>
                   THEN parser'.dropped_frames = parser.dropped_frames
                   ELSE LET last == arrivals[Len(arrivals)]
                        IN  IF n > last + 1
                            THEN parser'.dropped_frames = parser.dropped_frames + (n - last - 1)
                            ELSE parser'.dropped_frames = parser.dropped_frames)
        /\ (arrivals' = << 1, 2, 3, 7 >> => parser'.dropped_frames = 3) ]_vars

\* C8 witness: the arrivals 1,2,3,7 have been parsed and three frames are
\* counted as dropped.
C8_Witness == arrivals = << 1, 2, 3, 7 >> /\ parser.dropped_frames = 3

\* C9 (as claimed): after any arrival sequence the dropped-frame total is at
\* most the number of frame numbers between the smallest and the largest
\* seen that never arrived.
C9_NoInflation ==
    arrivals # << >> =>
        parser.dropped_frames
            <= Cardinality({ k \in SetMin(Seen)..SetMax(Seen) : k \notin Seen })

\* --------------------------------------------------- connector lifecycle
Return(c, v) ==
    callers' = [callers EXCEPT ![c] = [IdleCaller EXCEPT !.op = callers[c].op, !.ret = v]]
Goto(c, pc) == callers' = [callers EXCEPT ![c].pc = pc]
\* Caller c enters method op at pc.
Call(c, op, pc) ==
    callers' = [d \in Callers |->
                  IF d = c
                  THEN [IdleCaller EXCEPT !.pc = pc, !.op = op,
                                          !.in_disconnect = (op = "disconnect"),
                                          !.alone = \A e \in Callers \ {c} : callers[e].pc = "idle"]
                  ELSE [callers[d] EXCEPT !.alone = (callers[d].pc = "idle")]]

Alive(t) == threads[t].pc \notin {"unborn", "done"}
FreeThreads == { t \in ThreadIds : threads[t].pc = "unborn" }
FreeThread == CHOOSE t \in FreeThreads : \A u \in FreeThreads : t <= u
\* Thread objects the start() calls in progress will still create.
Reserved(c) ==
    IF callers[c].pc \in {"start_check_connected", "start_check_running",
                         "start_set_running", "start_clear_event", "start_receive_thread"}
    THEN 2
    ELSE IF callers[c].pc = "start_request_thread" THEN 1 ELSE 0
ReservedAll == Reserved("main") + Reserved("aux")

HeldSocks == { threads[t].sock[1] : t \in { u \in ThreadIds : threads[u].sock # None } }
FreeSocks == { k \in 1..MaxSockets : k \notin open_socks /\ k \notin HeldSocks }
FreeSock == CHOOSE k \in FreeSocks : \A j \in FreeSocks : k <= j

\* A caller thread enters connect(), start(), stop() or disconnect().
CallConnect(c) ==
    /\ callers[c].pc = "idle"
    /\ Cardinality(FreeSocks) > Cardinality({ d \in Callers : callers[d].pc = "connect_open" })
    /\ Call(c, "connect", "connect_open")
    /\ UNCHANGED << parser, connector_vars, history_vars, arrivals, client_vars, probe, observer_vars >>

CallStart(c) ==
    /\ callers[c].pc = "idle"
    /\ Cardinality(FreeThreads) >= ReservedAll + 2
    /\ Call(c, "start", "start_check_connected")
    /\ UNCHANGED << parser, connector_vars, history_vars, arrivals, client_vars, probe, observer_vars >>

CallStop(c) ==
    /\ callers[c].pc = "idle"
    /\ Call(c, "stop", "stop_check")
    /\ UNCHANGED << parser, connector_vars, history_vars, arrivals, client_vars, probe, observer_vars >>

CallDisconnect(c) ==
    /\ callers[c].pc = "idle"
    /\ Call(c, "disconnect", "stop_check")
    /\ UNCHANGED << parser, connector_vars, history_vars, arrivals, client_vars, probe, observer_vars >>

\* connect(): socket(), setsockopt, bind, settimeout.  socket() may raise
\* (nothing assigned), bind may raise (the new socket stays assigned).
ConnectOpen(c) ==
    /\ callers[c].pc = "connect_open"
    /\ \/ /\ FreeSocks # {}
          /\ socket' = Some(FreeSock)
          /\ open_socks' = open_socks \cup {FreeSock}
          /\ Goto(c, "connect_probe")
          /\ UNCHANGED is_connected
       \/ /\ FreeSocks # {}
          /\ socket' = Some(FreeSock)
          /\ open_socks' = open_socks \cup {FreeSock}
          /\ is_connected' = FALSE
          /\ Return(c, "False")
       \/ /\ is_connected' = FALSE
          /\ Return(c, "False")
          /\ UNCHANGED << socket, open_socks >>
    /\ UNCHANGED << parser, is_running, stop_event, receive_thread, request_thread, threads,
                    state_queue, state_callback, packets_received, packets_sent,
                    history_vars, arrivals, client_vars, probe, observer_vars >>

\* connect(): the version probe is sent, or sendto raises.
ConnectProbe(c) ==
    /\ callers[c].pc = "connect_probe"
    /\ \/ /\ socket # None
          /\ socket[1] \in open_socks
          /\ Goto(c, "connect_wait")
          /\ UNCHANGED is_connected
       \/ /\ is_connected' = FALSE
          /\ Return(c, "False")
    /\ UNCHANGED << parser, socket, open_socks, is_running, stop_event, receive_thread,
                    request_thread, threads, state_queue, state_callback, packets_received,
                    packets_sent, history_vars, arrivals, client_vars, probe, observer_vars >>

\* connect(): a reply arrives or the receive times out (both Connected), or
\* recvfrom raises another error.
ConnectWait(c) ==
    /\ callers[c].pc = "connect_wait"
    /\ \/ /\ is_connected' = TRUE
          /\ Return(c, "True")
       \/ /\ is_connected' = FALSE
          /\ Return(c, "False")
    /\ UNCHANGED << parser, socket, open_socks, is_running, stop_event, receive_thread,
                    request_thread, threads, state_queue, state_callback, packets_received,
                    packets_sent, history_vars, arrivals, client_vars, probe, observer_vars >>

\* start() raising the running flag before it looks at is_connected.
StartFlagBeforeCheck(c) ==
    /\ callers[c].pc = "start_check_connected"
    /\ is_running' = TRUE
    /\ IF ~is_connected THEN Return(c, "False") ELSE Goto(c, "start_check_running")
    /\ UNCHANGED << parser, socket, open_socks, is_connected, stop_event, receive_thread,
                    request_thread, threads, state_queue, state_callback, packets_received,
                    packets_sent, history_vars, arrivals, client_vars, probe, observer_vars >>

\* start(): if not self.is_connected: return False
StartCheckConnected(c) ==
    /\ callers[c].pc = "start_check_connected"
    /\ IF ~is_connected THEN Return(c, "False") ELSE Goto(c, "start_check_running")
    /\ UNCHANGED << parser, connector_vars, history_vars, arrivals, client_vars, probe, observer_vars >>

\* start(): if self.is_running: return True
StartCheckRunning(c) ==
    /\ callers[c].pc = "start_check_running"
    /\ IF is_running THEN Return(c, "True") ELSE Goto(c, "start_set_running")
    /\ UNCHANGED << parser, connector_vars, history_vars, arrivals, client_vars, probe, observer_vars >>

\* start(): self.is_running = True
StartSetRunning(c) ==
    /\ callers[c].pc = "start_set_running"
    /\ is_running' = TRUE
    /\ Goto(c, "start_clear_event")
    /\ UNCHANGED << parser, socket, open_socks, is_connected, stop_event, receive_thread,
                    request_thread, threads, state_queue, state_callback, packets_received,
                    packets_sent, history_vars, arrivals, client_vars, probe, observer_vars >>

\* start(): self._stop_event.clear()
StartClearEvent(c) ==
    /\ callers[c].pc = "start_clear_event"
    /\ stop_event' = FALSE
    /\ Goto(c, "start_receive_thread")
    /\ UNCHANGED << parser, socket, open_socks, is_connected, is_running, receive_thread,
                    request_thread, threads, state_queue, state_callback, packets_received,
                    packets_sent, history_vars, arrivals, client_vars, probe, observer_vars >>

\* start(): the receive thread is created and started
StartReceiveThread(c) ==
    /\ callers[c].pc = "start_receive_thread"
    /\ threads' = [threads EXCEPT ![FreeThread] = [NoThread EXCEPT !.kind = "receive", !.pc = "loop"]]
    /\ receive_thread' = Some(FreeThread)
    /\ Goto(c, "start_request_thread")
    /\ UNCHANGED << parser, socket, open_socks, is_connected, is_running, stop_event,
                    request_thread, state_queue, state_callback, packets_received,
                    packets_sent, history_vars, arrivals, client_vars, probe, observer_vars >>

\* start(): the request thread is created and started; return True
StartRequestThread(c) ==
    /\ callers[c].pc = "start_request_thread"
    /\ threads' = [threads EXCEPT ![FreeThread] = [NoThread EXCEPT !.kind = "request", !.pc = "loop"]]
    /\ request_thread' = Some(FreeThread)
    /\ Return(c, "True")
    /\ UNCHANGED << parser, socket, open_socks, is_connected, is_running, stop_event,
                    receive_thread, state_queue, state_callback, packets_received,
                    packets_sent, history_vars, arrivals, client_vars, probe, observer_vars >>

\* stop() returns: to its caller, or into the rest of disconnect().
StopReturn(c) ==
    IF callers[c].in_disconnect THEN Goto(c, "disconnect_close") ELSE Return(c, "None")

\* stop(): if not self.is_running: return
StopCheck(c) ==
    /\ callers[c].pc = "stop_check"
    /\ IF ~is_running THEN StopReturn(c) ELSE Goto(c, "stop_clear_running")
    /\ UNCHANGED << parser, connector_vars, history_vars, arrivals, client_vars, probe, observer_vars >>

\* stop(): self.is_running = False
StopClearRunning(c) ==
    /\ callers[c].pc = "stop_clear_running"
    /\ is_running' = FALSE
    /\ Goto(c, "stop_set_event")
    /\ UNCHANGED << parser, socket, open_socks, is_connected, stop_event, receive_thread,
                    request_thread, threads, state_queue, state_callback, packets_received,
                    packets_sent, history_vars, arrivals, client_vars, probe, observer_vars >>

\* stop(): self._stop_event.set()
StopSetEvent(c) ==
    /\ callers[c].pc = "stop_set_event"
    /\ stop_event' = TRUE
    /\ Goto(c, "stop_join_receive")
    /\ UNCHANGED << parser, socket, open_socks, is_connected, is_running, receive_thread,
                    request_thread, threads, state_queue, state_callback, packets_received,
                    packets_sent, history_vars, arrivals, client_vars, probe, observer_vars >>

\* stop(): if self._receive_thread: self._receive_thread.join(timeout=2.0),
\* the thread object being read when the call is reached.
StopJoinReceive(c) ==
    /\ callers[c].pc = "stop_join_receive"
    /\ IF receive_thread # None
       THEN callers' = [callers EXCEPT ![c].pc = "stop_joining_receive",
                                       ![c].join_on = receive_thread]
       ELSE Goto(c, "stop_join_request")
    /\ UNCHANGED << parser, connector_vars, history_vars, arrivals, client_vars, probe, observer_vars >>

\* The join returns once that thread has ended.  The 2 s timeout is not a
\* step of the model: a loop re-reads the stop flags within the 1 s receive
\* timeout (line 90) or the interrupted wait (line 247).
StopJoinedReceive(c) ==
    /\ callers[c].pc = "stop_joining_receive"
    /\ threads[callers[c].join_on[1]].pc = "done"
    /\ callers' = [callers EXCEPT ![c].pc = "stop_join_request", ![c].join_on = None]
    /\ UNCHANGED << parser, connector_vars, history_vars, arrivals, client_vars, probe, observer_vars >>

\* stop(): if self._request_thread: self._request_thread.join(timeout=2.0)
StopJoinRequest(c) ==
    /\ callers[c].pc = "stop_join_request"
    /\ IF request_thread # None
       THEN callers' = [callers EXCEPT ![c].pc = "stop_joining_request",
                                       ![c].join_on = request_thread]
       ELSE StopReturn(c)
    /\ UNCHANGED << parser, connector_vars, history_vars, arrivals, client_vars, probe, observer_vars >>

StopJoinedRequest(c) ==
    /\ callers[c].pc = "stop_joining_request"
    /\ threads[callers[c].join_on[1]].pc = "done"
    /\ IF callers[c].in_disconnect
       THEN callers' = [callers EXCEPT ![c].pc = "disconnect_close", ![c].join_on = None]
       ELSE Return(c, "None")
    /\ UNCHANGED << parser, connector_vars, history_vars, arrivals, client_vars, probe, observer_vars >>

\* disconnect(): if self.socket: self.socket.close(), an error of close()
\* being logged only
DisconnectClose(c) ==
    /\ callers[c].pc = "disconnect_close"
    /\ IF socket # None
       THEN \/ /\ open_socks' = open_socks \ {socket[1]}
               /\ Goto(c, "disconnect_clear_socket")
            \/ /\ open_socks' = open_socks \ {socket[1]}
               /\ callers' = [callers EXCEPT ![c].pc = "disconnect_clear_socket",
                                               ![c].ret = "close raised"]
       ELSE /\ Goto(c, "disconnect_clear_connected")
            /\ UNCHANGED open_socks
    /\ UNCHANGED << parser, socket, is_connected, is_running, stop_event, receive_thread,
                    request_thread, threads, state_queue, state_callback, packets_received,
                    packets_sent, history_vars, arrivals, client_vars, probe, observer_vars >>

\* disconnect() leaving the closed socket assigned.
DisconnectKeepSocket(c) ==
    /\ callers[c].pc = "disconnect_clear_socket"
    /\ Goto(c, "disconnect_clear_connected")
    /\ UNCHANGED << parser, connector_vars, history_vars, arrivals, client_vars, probe, observer_vars >>

\* disconnect(): self.socket = None
DisconnectClearSocket(c) ==
    /\ callers[c].pc = "disconnect_clear_socket"
    /\ socket' = None
    /\ Goto(c, "disconnect_clear_connected")
    /\ UNCHANGED << parser, open_socks, is_connected, is_running, stop_event, receive_thread,
                    request_thread, threads, state_queue, state_callback, packets_received,
                    packets_sent, history_vars, arrivals, client_vars, probe, observer_vars >>

\* disconnect(): self.is_connected = False
DisconnectClearConnected(c) ==
    /\ callers[c].pc = "disconnect_clear_connected"
    /\ is_connected' = FALSE
    /\ Return(c, "None")
    /\ UNCHANGED << parser, socket, open_socks, is_running, stop_event, receive_thread,
                    request_thread, threads, state_queue, state_callback, packets_received,
                    packets_sent, history_vars, arrivals, client_vars, probe, observer_vars >>

\* ------------------------------------------------------------ the loops
\* The loops ignoring both stop flags: while True: if not self.socket: break
LoopCheckSocketOnly(t, next_pc) ==
    /\ threads[t].pc = "loop"
    /\ IF socket # None
       THEN threads' = [threads EXCEPT ![t].pc = next_pc,
                                       ![t].sock = IF next_pc = "recv" THEN socket ELSE None]
       ELSE threads' = [threads EXCEPT ![t].pc = "done", ![t].sock = None]
    /\ UNCHANGED << parser, socket, open_socks, is_connected, is_running, stop_event,
                    receive_thread, request_thread, state_queue, state_callback,
                    packets_received, packets_sent, callers, history_vars, arrivals, client_vars, probe, observer_vars >>

\* while self.is_running and not self._stop_event.is_set(): ... if not
\* self.socket: break
LoopCheck(t, next_pc) ==
    /\ threads[t].pc = "loop"
    /\ IF is_running /\ ~stop_event /\ socket # None
       THEN threads' = [threads EXCEPT ![t].pc = next_pc,
                                       ![t].sock = IF next_pc = "recv" THEN socket ELSE None]
       ELSE threads' = [threads EXCEPT ![t].pc = "done", ![t].sock = None]
    /\ UNCHANGED << parser, socket, open_socks, is_connected, is_running, stop_event,
                    receive_thread, request_thread, state_queue, state_callback,
                    packets_received, packets_sent, callers, history_vars, arrivals, client_vars, probe, observer_vars >>

\* _receive_loop: the loop condition and the socket check
ReceiveLoopCheck(t) == threads[t].kind = "receive" /\ LoopCheck(t, "recv")

\* _receive_loop: recvfrom raises socket.timeout; continue
ReceiveTimeout(t) ==
    /\ threads[t].kind = "receive"
    /\ threads[t].pc = "recv"
    /\ threads' = [threads EXCEPT ![t].pc = "loop"]
    /\ UNCHANGED << parser, socket, open_socks, is_connected, is_running, stop_event,
                    receive_thread, request_thread, state_queue, state_callback,
                    packets_received, packets_sent, callers, history_vars, arrivals, client_vars, probe, observer_vars >>

\* _receive_loop: recvfrom raises another error (a closed socket, an I/O
\* error); break
ReceiveError(t) ==
    /\ threads[t].kind = "receive"
    /\ threads[t].pc = "recv"
    /\ threads' = [threads EXCEPT ![t].pc = "done", ![t].sock = None]
    /\ UNCHANGED << parser, socket, open_socks, is_connected, is_running, stop_event,
                    receive_thread, request_thread, state_queue, state_callback,
                    packets_received, packets_sent, callers, history_vars, arrivals, client_vars, probe, observer_vars >>

\* if message and message.is_state_message() and message.state
Deliverable(message) ==
    /\ message # None
    /\ is_state_message(message[1])
    /\ message[1].state # None

\* _receive_loop: a datagram was received and parse_packet returned message:
\* count it and either take the frame to the enqueue step or loop again.
Received(t, message) ==
    /\ packets_received' = packets_received + 1
    /\ threads' = [threads EXCEPT ![t].message = message,
                                  ![t].pc = IF Deliverable(message) THEN "put" ELSE "loop"]
    /\ IF Deliverable(message)
       THEN enq_q0' = state_queue /\ enq_alone' = TRUE
       ELSE UNCHANGED << enq_q0, enq_alone >>

\* _receive_loop: recvfrom returns data, which parse_packet decodes
ReceiveDatagram(t, data) ==
    /\ threads[t].kind = "receive"
    /\ threads[t].pc = "recv"
    /\ threads[t].sock[1] \in open_socks
    /\ packets_received < MaxReceived
    /\ parser' = parse_packet(parser, data).parser
    /\ Received(t, parse_packet(parser, data).message)
    /\ UNCHANGED << socket, open_socks, is_connected, is_running, stop_event,
                    receive_thread, request_thread, state_queue, state_callback,
                    packets_sent, callers, latest, cb_last, cb_raised, accepted,
                    consumer_calls, arrivals, client_vars, probe, observer_vars >>

\* _request_loop: the loop condition and the socket check
RequestLoopCheck(t) == threads[t].kind = "request" /\ LoopCheck(t, "send")

\* _request_loop: sendto succeeds; self.packets_sent += 1
RequestSend(t) ==
    /\ threads[t].kind = "request"
    /\ threads[t].pc = "send"
    /\ socket # None
    /\ socket[1] \in open_socks
    /\ packets_sent < MaxSent
    /\ packets_sent' = packets_sent + 1
    /\ threads' = [threads EXCEPT ![t].pc = "wait"]
    /\ UNCHANGED << parser, socket, open_socks, is_connected, is_running, stop_event,
                    receive_thread, request_thread, state_queue, state_callback,
                    packets_received, callers, history_vars, arrivals, client_vars, probe, observer_vars >>

\* _request_loop: sendto raises; break
RequestSendError(t) ==
    /\ threads[t].kind = "request"
    /\ threads[t].pc = "send"
    /\ threads' = [threads EXCEPT ![t].pc = "done", ![t].sock = None]
    /\ UNCHANGED << parser, socket, open_socks, is_connected, is_running, stop_event,
                    receive_thread, request_thread, state_queue, state_callback,
                    packets_received, packets_sent, callers, history_vars, arrivals, client_vars, probe, observer_vars >>

\* _request_loop: self._stop_event.wait(request_interval) returns
RequestWait(t) ==
    /\ threads[t].kind = "request"
    /\ threads[t].pc = "wait"
    /\ threads' = [threads EXCEPT ![t].pc = "loop"]
    /\ UNCHANGED << parser, socket, open_socks, is_connected, is_running, stop_event,
                    receive_thread, request_thread, state_queue, state_callback,
                    packets_received, packets_sent, callers, history_vars, arrivals, client_vars, probe, observer_vars >>

\* get_latest_state: state_queue.get(timeout) returns the head of the queue,
\* or raises Empty when the timeout ends with the queue empty
GetLatestState ==
    /\ consumer_calls < MaxConsumerCalls
    /\ consumer_calls' = consumer_calls + 1
    /\ IF state_queue # << >>
       THEN /\ latest' = Some(Head(state_queue))
            /\ state_queue' = Tail(state_queue)
            /\ enq_alone' = FALSE
       ELSE /\ latest' = None
            /\ UNCHANGED << state_queue, enq_alone >>
    /\ UNCHANGED << parser, socket, open_socks, is_connected, is_running, stop_event,
                    receive_thread, request_thread, threads, state_callback,
                    packets_received, packets_sent, callers, cb_last, cb_raised, enq_q0,
                    accepted, arrivals, client_vars, probe, observer_vars >>

\* set_callback
SetCallback ==
    /\ ~state_callback
    /\ state_callback' = TRUE
    /\ UNCHANGED << parser, socket, open_socks, is_connected, is_running, stop_event,
                    receive_thread, request_thread, threads, state_queue,
                    packets_received, packets_sent, callers, history_vars, arrivals, client_vars, probe, observer_vars >>

\* The datagrams the peer sends while the connector runs: the next frame or
\* the one after it, as telemetry in or out of range, or a version reply.
PeerDatagrams ==
    { Datagram(MSG_TELEMETRY, packets_received + 1, pl) : pl \in {RidePayload, FarPayload} }
        \cup { Datagram(MSG_VERSION, packets_received + 1, EmptyPayload) }

CallerStep(c) ==
    \/ CallConnect(c) \/ CallStart(c) \/ CallStop(c) \/ CallDisconnect(c)
    \/ ConnectOpen(c) \/ ConnectProbe(c) \/ ConnectWait(c)
    \/ StartCheckConnected(c) \/ StartCheckRunning(c) \/ StartSetRunning(c)
    \/ StartClearEvent(c) \/ StartReceiveThread(c) \/ StartRequestThread(c)
    \/ StopCheck(c) \/ StopClearRunning(c) \/ StopSetEvent(c)
    \/ StopJoinReceive(c) \/ StopJoinedReceive(c)
    \/ StopJoinRequest(c) \/ StopJoinedRequest(c)
    \/ DisconnectClose(c) \/ DisconnectClearSocket(c) \/ DisconnectClearConnected(c)

ThreadStep(t) ==
    \/ ReceiveLoopCheck(t) \/ ReceiveTimeout(t) \/ ReceiveError(t)
    \/ \E data \in PeerDatagrams : ReceiveDatagram(t, data)
    \/ RequestLoopCheck(t) \/ RequestSend(t) \/ RequestSendError(t) \/ RequestWait(t)

\* The connector used from one caller thread.
Next ==
    \/ CallerStep("main")
    \/ \E t \in ThreadIds : ThreadStep(t)
    \/ GetLatestState
    \/ SetCallback

Spec == Init /\ [][Next]_vars

\* A second caller thread that calls start().
StartStep(c) ==
    \/ CallStart(c)
    \/ StartCheckConnected(c) \/ StartCheckRunning(c) \/ StartSetRunning(c)
    \/ StartClearEvent(c) \/ StartReceiveThread(c) \/ StartRequestThread(c)

\* The loops while the peer is silent: every receive times out or fails.
QuietThreadStep(t) ==
    \/ ReceiveLoopCheck(t) \/ ReceiveTimeout(t) \/ ReceiveError(t)
    \/ RequestLoopCheck(t) \/ RequestSend(t) \/ RequestSendError(t) \/ RequestWait(t)

RaceNext ==
    \/ CallerStep("main")
    \/ StartStep("aux")
    \/ \E t \in ThreadIds : QuietThreadStep(t)

\* The connector used from two caller threads.
SpecRace == Init /\ [][RaceNext]_vars

ThreadsOf(kind) == { t \in ThreadIds : threads[t].kind = kind /\ Alive(t) }
Elems(q) == { q[i] : i \in DOMAIN q }

\* C1 (as claimed): once the receive loop has taken a datagram that decodes
\* to a valid telemetry frame (message id 4, state in range), the frame is
\* on the delivery queue unless a consumer took it, and it was passed to the
\* callback registered at that time.
C1_ValidFrameDelivered ==
    \A t \in ThreadIds :
        ( /\ threads[t].kind = "receive"
          /\ threads[t].pc \in {"loop", "recv", "done"}
          /\ threads[t].message # None
          /\ threads[t].message[1].message_type = MSG_TELEMETRY
          /\ threads[t].message[1].state # None
          /\ latest = None )
        => threads[t].message[1].state[1] \in Elems(state_queue)

\* C12 (as claimed): the message parse_packet returned for an in-range
\* telemetry packet (message id 4) carries that type, a frame number of the
\* stream and the packet's position, velocity and timestamp, and
\* is_state_message() is true of it.
C12_TelemetryIsStateMessage ==
    \A t \in ThreadIds :
        ( /\ threads[t].message # None
          /\ threads[t].message[1].message_type = MSG_TELEMETRY
          /\ threads[t].message[1].state # None )
        => /\ threads[t].message[1].frame_number \in 1..packets_received
           /\ threads[t].message[1].state[1].position = Vector3D(Fl(100), Fl(50), Fl(200))
           /\ threads[t].message[1].state[1].velocity = Vector3D(Fl(10), Fl(5), Fl(2))
           /\ threads[t].message[1].state[1].timestamp = Fl(1)
           /\ is_state_message(threads[t].message[1])

\* C17 (as claimed): a connect() that has created and bound its socket and
\* sent the version probe returns True with is_connected set, whatever the
\* wait for a reply brings.
C17_ConnectedOnceProbeSent ==
    [][ \A c \in Callers :
          (callers[c].pc = "connect_wait" /\ callers'[c].pc = "idle")
             => (callers'[c].ret = "True" /\ is_connected') ]_vars

\* C4 (as claimed): at most one send loop and at most one receive loop are
\* alive at any time.
C4_OneLoopOfEachKind ==
    /\ Cardinality(ThreadsOf("receive")) <= 1
    /\ Cardinality(ThreadsOf("request")) <= 1

\* A step in which caller c returns from a stop() that found the connector
\* Running.
StopReturns(c) ==
    /\ callers[c].pc \in {"stop_join_request", "stop_joining_request"}
    /\ callers'[c].pc \notin {"stop_join_request", "stop_joining_request"}

\* C5 (as claimed): when a stop() called on a Running connector returns, no
\* send loop and no receive loop is still alive.  Stated for a stop() during
\* which no other caller was inside a method of the connector.
C5_StopJoinsBothLoops ==
    [][ \A c \in Callers :
          (StopReturns(c) /\ callers[c].alone) => \A t \in ThreadIds : threads'[t].pc \in {"unborn", "done"} ]_vars

\* A step taken by caller c.
StepOf(c) == callers'[c] # callers[c]

\* C6: misuse of the lifecycle has no side effects.  start() on a connector
\* that is not Connected returns False, start() on a Running connector
\* returns True and stop() on a connector that is not Running returns; none
\* of them changes a flag, the stop signal, a counter, a thread or the queue.
C6_MisuseHasNoEffect ==
    [][ \A c \in Callers :
          /\ (StepOf(c) /\ callers'[c].pc = "start_check_connected")
                => UNCHANGED << connector_vars, parser >>
          /\ (StepOf(c) /\ callers[c].pc = "start_check_connected" /\ ~is_connected)
                => /\ callers'[c].pc = "idle"
                   /\ callers'[c].ret = "False"
                   /\ UNCHANGED << connector_vars, parser >>
          /\ (StepOf(c) /\ callers[c].pc = "start_check_connected" /\ is_connected)
                => UNCHANGED << connector_vars, parser >>
          /\ (StepOf(c) /\ callers[c].pc = "start_check_running" /\ is_running)
                => /\ callers'[c].pc = "idle"
                   /\ callers'[c].ret = "True"
                   /\ UNCHANGED << connector_vars, parser >>
          /\ (StepOf(c) /\ callers'[c].pc = "stop_check")
                => UNCHANGED << connector_vars, parser >>
          /\ (StepOf(c) /\ callers[c].pc = "stop_check" /\ ~is_running)
                => /\ callers'[c].pc \in {"idle", "disconnect_close"}
                   /\ UNCHANGED << connector_vars, parser >> ]_vars

\* C6 witness: a start() before any connect() has returned False and there
\* is no thread, no running flag and no stop signal.
C6_Witness ==
    /\ callers["main"].pc = "idle"
    /\ callers["main"].op = "start"
    /\ callers["main"].ret = "False"
    /\ ~is_connected
    /\ ~is_running
    /\ threads = [t \in ThreadIds |-> NoThread]

\* The connector is Idle: not connected, not running, no socket.
IsIdle == ~is_connected /\ ~is_running /\ socket = None

\* C7: when disconnect() returns the connector is not connected, not running
\* and holds no socket, its socket being closed, whether close() raised or
\* not; and a disconnect() of a connector in that state changes no state.
C7_DisconnectIdempotent ==
    [][ \A c \in Callers :
          /\ (callers[c].pc = "disconnect_clear_connected" /\ callers'[c].pc = "idle")
                => /\ IsIdle'
                   /\ open_socks' \subseteq open_socks
          /\ (callers[c].pc = "disconnect_close" /\ StepOf(c) /\ socket # None)
                => socket[1] \notin open_socks'
          /\ (callers[c].op = "disconnect" /\ StepOf(c) /\ callers'[c].op = "disconnect"
                /\ IsIdle)
                => UNCHANGED << connector_vars, parser >> ]_vars

\* C7 witness: a connector that had been started was disconnected, its
\* socket closed and its receive loop ended, and a further disconnect() of
\* the Idle connector is under way.
C7_Witness ==
    /\ callers["main"].pc = "disconnect_close"
    /\ callers["main"].op = "disconnect"
    /\ IsIdle
    /\ open_socks = {}
    /\ \E t \in ThreadIds : threads[t].kind = "receive" /\ threads[t].pc = "done"

\* A start() call in progress is about to create the loop thread of kind.
AboutToStart(kind) ==
    \E c \in Callers :
        callers[c].pc \in ( {"start_clear_event", "start_receive_thread"}
                              \cup IF kind = "request" THEN {"start_request_thread"} ELSE {} )

\* C26 (as claimed): while is_running is true, a receive loop and a request
\* loop are alive, or the start() call in progress is about to create them.
C26_RunningMeansLoopsAlive ==
    is_running =>
        \A kind \in {"receive", "request"} : ThreadsOf(kind) # {} \/ AboutToStart(kind)

\* C27 (as claimed): is_running implies is_connected and a socket.
C27_RunningImpliesConnected == is_running => (is_connected /\ socket # None)

\* C28 (as claimed): the connector has at most one open socket; once
\* connect() has returned False, and once disconnect() has returned, it has
\* none.
C28_OneSocketOwned ==
    /\ Cardinality(open_socks) <= 1
    /\ \A c \in Callers :
          ( /\ callers[c].pc = "idle"
            /\ callers[c].alone
            /\ \/ callers[c].op = "connect" /\ callers[c].ret = "False"
               \/ callers[c].op = "disconnect" )
              => open_socks = {}

\* ------------------------------------------- the delivery step in detail
\* The receive loop one queue operation or callback invocation per step,
\* beside a consumer.  parse_packet decodes every datagram, but the type of
\* the message it hands back is left open, so that the condition of the
\* enqueue step is met by some messages and not by others.

\* __enter__ when connect() and start() succeed
Enter ==
    /\ ~is_connected
    /\ ~is_running
    /\ threads = [t \in ThreadIds |-> NoThread]
    /\ socket' = Some(1)
    /\ open_socks' = {1}
    /\ is_connected' = TRUE
    /\ is_running' = TRUE
    /\ stop_event' = FALSE
    /\ threads' = [threads EXCEPT ![1] = [NoThread EXCEPT !.kind = "receive", !.pc = "loop"],
                                  ![2] = [NoThread EXCEPT !.kind = "request", !.pc = "loop"]]
    /\ receive_thread' = Some(1)
    /\ request_thread' = Some(2)
    /\ UNCHANGED << parser, state_queue, state_callback, packets_received, packets_sent,
                    callers, history_vars, arrivals, client_vars, probe, observer_vars >>

\* The payload of the peer's n-th telemetry frame.
FramePayload(n) == Payload(MIN_PAYLOAD_SIZE, RideFloats, 0, Fl(n))

\* The message parse_packet returned, carrying message_type as its type.
Tagged(message, message_type) ==
    IF message = None THEN None
    ELSE Some([message[1] EXCEPT !.message_type = message_type])

\* _receive_loop: recvfrom returns data and parse_packet decodes it; the
\* type the returned message carries is left open.
ReceiveTagged(t, data, message_type) ==
    /\ threads[t].kind = "receive"
    /\ threads[t].pc = "recv"
    /\ threads[t].sock[1] \in open_socks
    /\ parser' = parse_packet(parser, data).parser
    /\ Received(t, Tagged(parse_packet(parser, data).message, message_type))
    /\ accepted' = IF Deliverable(Tagged(parse_packet(parser, data).message, message_type))
                   THEN accepted + 1 ELSE accepted
    /\ UNCHANGED << socket, open_socks, is_connected, is_running, stop_event,
                    receive_thread, request_thread, state_queue, state_callback,
                    packets_sent, callers, latest, cb_last, cb_raised, consumer_calls,
                    arrivals, client_vars, probe, observer_vars >>

MessageTypes == {STATE_MESSAGE_TYPE, MSG_TELEMETRY}

\* The datagrams of the delivery specification: the next frame.
LoopDatagrams == { Datagram(MSG_TELEMETRY, accepted + 1, FramePayload(accepted + 1)) }

\* The bounds of the delivery specification.
LoopCap(data, message_type) ==
    IF Deliverable(Tagged(parse_packet(parser, data).message, message_type))
    THEN accepted < MaxAccepted
    ELSE packets_received - accepted < MaxOther

\* The frame the receive loop is delivering: state = message.state
StateOf(t) == threads[t].message[1].state[1]

\* Queue.put_nowait: the queue with item added, or Full
put_nowait(q, item) ==
    IF Len(q) >= QUEUE_MAXSIZE THEN [full |-> TRUE, queue |-> q]
    ELSE [full |-> FALSE, queue |-> Append(q, item)]

\* _receive_loop: self.state_queue.put_nowait(state), or Full is raised
Put(t) ==
    /\ threads[t].pc = "put"
    /\ state_queue' = put_nowait(state_queue, StateOf(t)).queue
    /\ threads' = [threads EXCEPT ![t].pc =
                      IF put_nowait(state_queue, StateOf(t)).full THEN "evict" ELSE "callback"]
    /\ UNCHANGED << parser, socket, open_socks, is_connected, is_running, stop_event,
                    receive_thread, request_thread, state_callback, packets_received,
                    packets_sent, callers, history_vars, arrivals, client_vars, probe, observer_vars >>

\* The eviction taking the newest frame instead of the oldest.
EvictNewest(t) ==
    /\ threads[t].pc = "evict"
    /\ IF state_queue # << >>
       THEN /\ state_queue' = SubSeq(state_queue, 1, Len(state_queue) - 1)
            /\ threads' = [threads EXCEPT ![t].pc = "reput"]
       ELSE /\ UNCHANGED state_queue
            /\ threads' = [threads EXCEPT ![t].pc = "callback"]
    /\ UNCHANGED << parser, socket, open_socks, is_connected, is_running, stop_event,
                    receive_thread, request_thread, state_callback, packets_received,
                    packets_sent, callers, history_vars, arrivals, client_vars, probe, observer_vars >>

\* _receive_loop: self.state_queue.get_nowait() drops the oldest frame; if
\* the queue is empty by now, Empty is raised and swallowed
Evict(t) ==
    /\ threads[t].pc = "evict"
    /\ IF state_queue # << >>
       THEN /\ state_queue' = Tail(state_queue)
            /\ threads' = [threads EXCEPT ![t].pc = "reput"]
       ELSE /\ UNCHANGED state_queue
            /\ threads' = [threads EXCEPT ![t].pc = "callback"]
    /\ UNCHANGED << parser, socket, open_socks, is_connected, is_running, stop_event,
                    receive_thread, request_thread, state_callback, packets_received,
                    packets_sent, callers, history_vars, arrivals, client_vars, probe, observer_vars >>

\* _receive_loop: the second self.state_queue.put_nowait(state); Full is
\* swallowed
Reput(t) ==
    /\ threads[t].pc = "reput"
    /\ state_queue' = put_nowait(state_queue, StateOf(t)).queue
    /\ threads' = [threads EXCEPT ![t].pc = "callback"]
    /\ UNCHANGED << parser, socket, open_socks, is_connected, is_running, stop_event,
                    receive_thread, request_thread, state_callback, packets_received,
                    packets_sent, callers, history_vars, arrivals, client_vars, probe, observer_vars >>

\* The callback invoked outside any try: what it raises ends the loop.
CallbackUnguarded(t) ==
    /\ threads[t].pc = "callback"
    /\ IF state_callback
       THEN /\ cb_last' = Some(StateOf(t))
            /\ cb_raised' \in BOOLEAN
            /\ threads' = [threads EXCEPT ![t].pc = IF cb_raised' THEN "done" ELSE "loop"]
       ELSE /\ UNCHANGED << cb_last, cb_raised >>
            /\ threads' = [threads EXCEPT ![t].pc = "loop"]
    /\ enq_q0' = << >>
    /\ enq_alone' = TRUE
    /\ UNCHANGED << parser, socket, open_socks, is_connected, is_running, stop_event,
                    receive_thread, request_thread, state_queue, state_callback,
                    packets_received, packets_sent, callers, latest, accepted,
                    consumer_calls, arrivals, client_vars, probe, observer_vars >>

\* _receive_loop: if self.state_callback: self.state_callback(state), which
\* returns or raises an Exception that is logged
Callback(t) ==
    /\ threads[t].pc = "callback"
    /\ threads' = [threads EXCEPT ![t].pc = "loop"]
    /\ IF state_callback
       THEN /\ cb_last' = Some(StateOf(t))
            /\ cb_raised' \in BOOLEAN
       ELSE UNCHANGED << cb_last, cb_raised >>
    /\ enq_q0' = << >>
    /\ enq_alone' = TRUE
    /\ UNCHANGED << parser, socket, open_socks, is_connected, is_running, stop_event,
                    receive_thread, request_thread, state_queue, state_callback,
                    packets_received, packets_sent, callers, latest, accepted,
                    consumer_calls, arrivals, client_vars, probe, observer_vars >>

LoopNext ==
    \/ Enter
    \/ SetCallback
    \/ GetLatestState
    \/ \E t \in ThreadIds :
          \/ ReceiveLoopCheck(t) \/ ReceiveTimeout(t)
          \/ \E data \in LoopDatagrams, ty \in MessageTypes :
                LoopCap(data, ty) /\ ReceiveTagged(t, data, ty)
          \/ Put(t) \/ Evict(t) \/ Reput(t) \/ Callback(t)

SpecLoop == Init /\ [][LoopNext]_vars

\* ------------------------------------------ the enqueue step and clear_queue
\* clear_queue: get_nowait until the queue is empty, the whole loop in one
\* step (the runs in which the receive loop acts between two of its
\* get_nowait calls are left out)
ClearQueue ==
    /\ consumer_calls < MaxConsumerCalls
    /\ consumer_calls' = consumer_calls + 1
    /\ state_queue' = << >>
    /\ enq_alone' = (enq_alone /\ state_queue = << >>)
    /\ UNCHANGED << parser, socket, open_socks, is_connected, is_running, stop_event,
                    receive_thread, request_thread, threads, state_callback,
                    packets_received, packets_sent, callers, latest, cb_last, cb_raised,
                    enq_q0, accepted, arrivals, client_vars, probe, observer_vars >>

DrainNext ==
    \/ Enter
    \/ GetLatestState
    \/ ClearQueue
    \/ \E t \in ThreadIds :
          \/ ReceiveLoopCheck(t) \/ ReceiveTimeout(t)
          \/ \E data \in LoopDatagrams :
                accepted < MaxAccepted /\ ReceiveTagged(t, data, STATE_MESSAGE_TYPE)
          \/ Put(t) \/ Evict(t) \/ Reput(t) \/ Callback(t)

\* The receive loop beside a consumer that reads or clears the queue.
SpecDrain == Init /\ [][DrainNext]_vars

C2_FullQueueEvictsOldest ==
    /\ [](Len(state_queue) <= QUEUE_MAXSIZE)
    /\ [][ \A t \in ThreadIds :
             (/\ threads[t].pc \in {"put", "evict", "reput"}
              /\ threads'[t].pc = "callback"
              /\ enq_alone'
              /\ Len(enq_q0) = QUEUE_MAXSIZE)
                => /\ state_queue' = Append(Tail(enq_q0), StateOf(t))
                   /\ Len(state_queue') = QUEUE_MAXSIZE ]_vars

\* C2 witness: the enqueue step has just run on a queue of 100 frames with
\* no consumer about, and the queue is those frames without the oldest,
\* followed by the new frame.
C2_Witness ==
    \E t \in ThreadIds :
        /\ threads[t].pc = "callback"
        /\ enq_alone
        /\ Len(enq_q0) = QUEUE_MAXSIZE
        /\ state_queue = Append(Tail(enq_q0), StateOf(t))
        /\ Head(enq_q0) \notin Elems(state_queue)

\* C10: a callback invocation that raises leaves the receive loop at the top
\* of its next iteration with the queue, is_running and every other field of
\* the connector as they were, the frame still queued if no consumer took
\* it; and the frame of a later datagram is passed to the callback as well.
C10_CallbackIsolated ==
    [][ \A t \in ThreadIds :
          (threads[t].pc = "callback" /\ threads'[t].pc # "callback" /\ state_callback)
             => /\ cb_last' = Some(StateOf(t))
                /\ cb_raised'
                      => /\ threads' = [threads EXCEPT ![t].pc = "loop"]
                         /\ state_queue' = state_queue
                         /\ is_running' = is_running
                         /\ UNCHANGED << socket, open_socks, is_connected, stop_event,
                                         receive_thread, request_thread, packets_received,
                                         parser >>
                         /\ enq_alone => StateOf(t) \in Elems(state_queue') ]_vars

\* C10 witness: the callback raised on one frame, and the frame of the next
\* datagram has since been counted, decoded and enqueued behind it and is
\* about to be passed to the callback, the connector still running.
C10_Witness ==
    \E t \in ThreadIds :
        /\ cb_raised
        /\ cb_last # None
        /\ threads[t].pc = "callback"
        /\ state_callback
        /\ StateOf(t) # cb_last[1]
        /\ cb_last[1] \in Elems(state_queue)
        /\ StateOf(t) \in Elems(state_queue)
        /\ is_running
        /\ packets_received >= 2

\* ------------------------------------------------------- the TCP client
\* NL2TelemetryClient.connect: the socket is created and connects, or the
\* connection is refused or times out, or socket() itself fails
TcpConnect ==
    /\ \/ /\ client' = [socket |-> Some([connected |-> TRUE]), is_connected |-> TRUE]
          /\ tcp_last' = TcpCall("connect", "ok", FALSE, FALSE, FALSE)
       \/ /\ client' = [client EXCEPT !.socket = Some([connected |-> FALSE])]
          /\ tcp_last' = TcpCall("connect", "refused", FALSE, FALSE, FALSE)
       \/ /\ UNCHANGED client
          /\ tcp_last' = TcpCall("connect", "no socket", FALSE, FALSE, FALSE)
    /\ UNCHANGED << parser, connector_vars, callers, history_vars, arrivals, returned, probe, observer_vars >>

\* disconnect leaving is_connected as it was.
TcpDisconnectKeepFlag ==
    /\ \/ /\ client.socket = None
          /\ tcp_last' = TcpCall("disconnect", "ok", FALSE, FALSE, FALSE)
       \/ /\ client.socket # None
          /\ \E raised \in BOOLEAN :
                tcp_last' = TcpCall("disconnect", "ok", FALSE, TRUE, raised)
    /\ client' = [client EXCEPT !.socket = None]
    /\ UNCHANGED << parser, connector_vars, callers, history_vars, arrivals, returned, probe, observer_vars >>

\* NL2TelemetryClient.disconnect: with no socket; or the socket is closed,
\* close() returning or raising an error that is logged
TcpDisconnect ==
    /\ \/ /\ client.socket = None
          /\ tcp_last' = TcpCall("disconnect", "ok", FALSE, FALSE, FALSE)
       \/ /\ client.socket # None
          /\ \E raised \in BOOLEAN :
                tcp_last' = TcpCall("disconnect", "ok", FALSE, TRUE, raised)
    /\ client' = [socket |-> None, is_connected |-> FALSE]
    /\ UNCHANGED << parser, connector_vars, callers, history_vars, arrivals, returned, probe, observer_vars >>

\* The replies the server may send to a telemetry request.
TcpReplies ==
    { Reply("N", REPLY_TELEMETRY, body.len, body, "L") :
          body \in {RideTelemetry, FarTelemetry, FastTelemetry, NaNTelemetry, ShortTelemetry} }
        \cup { Reply("N", REPLY_TELEMETRY, 0, RideTelemetry, "L"),
               Reply("N", REPLY_ERROR, 0, NoBody, "L"),
               Reply("N", REPLY_VERSION, 0, NoBody, "L"),
               Reply("X", REPLY_TELEMETRY, TELEMETRY_SIZE, RideTelemetry, "L"),
               RuntReply }

\* What ended a get_telemetry call that received response.
CauseOf(response) ==
    IF parse_message(response) = None THEN "bad envelope"
    ELSE IF parse_message(response)[1].type_id # REPLY_TELEMETRY THEN "other type"
    ELSE IF TelemetryOf(response) = None THEN "bad payload"
    ELSE "frame"

\* get_telemetry dropping the connection when the receive times out.
TcpGetTelemetryDropping ==
    /\ \/ /\ ~client.is_connected \/ client.socket = None
          /\ returned' = None
          /\ tcp_last' = TcpCall("get_telemetry", "not connected", FALSE, FALSE, FALSE)
          /\ UNCHANGED client
       \/ /\ client.is_connected /\ client.socket # None
          /\ returned' = None
          /\ tcp_last' = TcpCall("get_telemetry", "send error", FALSE, FALSE, FALSE)
          /\ UNCHANGED client
       \/ /\ client.is_connected /\ client.socket # None
          /\ client.socket[1].connected
          /\ returned' = None
          /\ tcp_last' = TcpCall("get_telemetry", "timeout", TRUE, FALSE, FALSE)
          /\ client' = [socket |-> None, is_connected |-> FALSE]
       \/ /\ client.is_connected /\ client.socket # None
          /\ client.socket[1].connected
          /\ \E response \in TcpReplies :
                /\ returned' = TelemetryOf(response)
                /\ tcp_last' = TcpCall("get_telemetry", CauseOf(response), TRUE, FALSE, FALSE)
          /\ UNCHANGED client
    /\ UNCHANGED << parser, connector_vars, callers, history_vars, arrivals, probe, observer_vars >>

\* NL2TelemetryClient.get_telemetry: not connected; or send raises; or recv
\* times out or raises; or recv returns a response
TcpGetTelemetry ==
    /\ \/ /\ ~client.is_connected \/ client.socket = None
          /\ returned' = None
          /\ tcp_last' = TcpCall("get_telemetry", "not connected", FALSE, FALSE, FALSE)
       \/ /\ client.is_connected /\ client.socket # None
          /\ returned' = None
          /\ tcp_last' = TcpCall("get_telemetry", "send error", FALSE, FALSE, FALSE)
       \/ /\ client.is_connected /\ client.socket # None
          /\ client.socket[1].connected
          /\ returned' = None
          /\ tcp_last' = TcpCall("get_telemetry", "timeout", TRUE, FALSE, FALSE)
       \/ /\ client.is_connected /\ client.socket # None
          /\ client.socket[1].connected
          /\ \E response \in TcpReplies :
                /\ returned' = TelemetryOf(response)
                /\ tcp_last' = TcpCall("get_telemetry", CauseOf(response), TRUE, FALSE, FALSE)
    /\ UNCHANGED << parser, connector_vars, callers, history_vars, arrivals, client, probe, observer_vars >>

TcpNext == TcpConnect \/ TcpDisconnect \/ TcpGetTelemetry

\* The TCP client on its own.
SpecTcp == Init /\ [][TcpNext]_vars

\* A call on the TCP client was made in this step.
TcpStep(op) == tcp_last'.seq # tcp_last.seq /\ tcp_last'.op = op

\* C11: a get_telemetry call returns no frame when the reply has a type
\* other than TELEMETRY, when the envelope or the payload fails to decode
\* and when the receive times out, and leaves the client connected with its
\* socket as it was; called on a client that is not connected it returns no
\* frame and sends nothing.
C11_NoDataIsNotFatal ==
    [][ TcpStep("get_telemetry") =>
          /\ tcp_last'.cause \in {"other type", "bad envelope", "bad payload", "timeout"}
                => /\ returned' = None
                   /\ client' = client
                   /\ client'.is_connected /\ client'.socket # None
          /\ tcp_last'.cause = "not connected"
                => returned' = None /\ ~tcp_last'.sent /\ client' = client
          /\ tcp_last'.cause = "frame" => returned' # None ]_vars

\* C11 witness: a call timed out on a connected client, which is still
\* connected with its socket.
C11_Witness ==
    /\ tcp_last.op = "get_telemetry"
    /\ tcp_last.cause = "timeout"
    /\ returned = None
    /\ client.is_connected
    /\ client.socket # None

\* C18: when disconnect() returns the client holds no socket and is not
\* connected, whether it had a socket or not and whether close() raised or
\* not; a disconnect() of a client in that state changes nothing.
C18_TcpDisconnectIdempotent ==
    [][ TcpStep("disconnect") =>
          /\ client' = [socket |-> None, is_connected |-> FALSE]
          /\ (client.socket = None /\ ~client.is_connected)
                => (client' = client /\ returned' = returned /\ ~tcp_last'.closed) ]_vars

\* C18 witness: a disconnect() whose close() raised has been followed by a
\* second disconnect(), and the client holds no socket and is not connected.
C18_Witness ==
    /\ tcp_last.op = "disconnect"
    /\ tcp_last.prev = << "disconnect", TRUE >>
    /\ ~tcp_last.closed
    /\ client = [socket |-> None, is_connected |-> FALSE]
    /\ returned # None

\* ------------------------------------------ decoding through to delivery
\* Both decoders in front of everything that hands a frame on: the receive
\* loop with its queue, callback and consumer, and the TCP client.

\* The datagrams decoded: the next frame in range, out of range, not a
\* number, or cut short.
FrameDatagrams ==
    { Datagram(MSG_TELEMETRY, accepted + 1, pl) :
          pl \in {FramePayload(accepted + 1), FarPayload, NaNPayload, ShortPayload} }

FramesNext ==
    \/ Enter
    \/ SetCallback
    \/ GetLatestState
    \/ \E t \in ThreadIds :
          \/ ReceiveLoopCheck(t) \/ ReceiveTimeout(t)
          \/ \E data \in FrameDatagrams, ty \in MessageTypes :
                packets_received < MaxDecoded /\ ReceiveTagged(t, data, ty)
          \/ Put(t) \/ Callback(t)
    \/ TcpConnect
    \/ TcpDisconnect
    \/ TcpGetTelemetry

SpecFrames == Init /\ [][FramesNext]_vars

C3_OnlyValidFramesDelivered ==
    /\ \A i \in DOMAIN state_queue : is_valid(state_queue[i])
    /\ cb_last # None => is_valid(cb_last[1])
    /\ latest # None => is_valid(latest[1])
    /\ returned # None => is_valid(returned[1])

\* C3 witness: each of the four ways has handed on a frame.
C3_Witness ==
    /\ state_queue # << >>
    /\ cb_last # None
    /\ latest # None
    /\ returned # None

\* ------------------------------------------------- is_valid on its own
\* CoasterState(...) with view_mode and train_index at their defaults
CoasterState(timestamp, position, velocity, acceleration, orientation, g_force, speed) ==
    [timestamp |-> timestamp, position |-> position, velocity |-> velocity,
     acceleration |-> acceleration, orientation |-> orientation, g_force |-> g_force,
     speed |-> speed, view_mode |-> 0, train_index |-> 0]

\* The frames is_valid is applied to: every field at, inside and beyond its
\* limit, and not finite.
ProbeFrames ==
    { CoasterState(ts, Vector3D(px, Fl(0 - POSITION_LIMIT), pz), Vector3D(vx, Fl(0), Fl(0)),
                   Vector3D(Fl(0), Fl(0), az), Quaternion(qw, Fl(0), Fl(0), Fl(0)), g, speed) :
        ts \in {Fl(1), NaN},
        px \in {Fl(POSITION_LIMIT), Fl(POSITION_LIMIT + 1), Fl(0 - POSITION_LIMIT - 1),
                Fl(1000000), PosInf},
        pz \in {Fl(200), Fl(POSITION_LIMIT + 1)},
        vx \in {Fl(10), PosInf},
        az \in {Fl(0), NaN},
        qw \in {Fl(1), NaN},
        g \in {Vector3D(Fl(0), Fl(0), Fl(G_FORCE_LIMIT)), Vector3D(Fl(30), Fl(40), Fl(0)),
               Vector3D(Fl(30), Fl(40), Fl(1)), Vector3D(Fl(0), Fl(0 - G_FORCE_LIMIT - 1), Fl(0)),
               Vector3D(Fl(0), NaN, Fl(1))},
        speed \in {Fl(SPEED_LIMIT), Fl(SPEED_LIMIT + 1), Fl(0 - 5), NaN} }

ValidInit ==
    /\ Constructed
    /\ probe \in [op : {"is_valid"}, input : { Some(f) : f \in ProbeFrames }, output : {None}]

\* is_valid with the speed limit itself rejected.
IsValidBelowLimit ==
    /\ probe.op = "is_valid"
    /\ probe.output = None
    /\ probe' = [probe EXCEPT !.output =
                    Some(is_valid(probe.input[1]) /\ probe.input[1].speed # Fl(SPEED_LIMIT))]
    /\ UNCHANGED << parser, connector_vars, callers, history_vars, arrivals, client_vars,
                    observer_vars >>

\* state.is_valid()
IsValid ==
    /\ probe.op = "is_valid"
    /\ probe.output = None
    /\ probe' = [probe EXCEPT !.output = Some(is_valid(probe.input[1]))]
    /\ UNCHANGED << parser, connector_vars, callers, history_vars, arrivals, client_vars,
                    observer_vars >>

ValidNext == IsValid

SpecValid == ValidInit /\ [][ValidNext]_vars

\* The validity of a frame as the claim words it.
Finite(a) == a # NaN /\ a # PosInf
AtMost(a, k) == a.v <= k * a.den
Within(f) ==
    /\ \A c \in {f.timestamp, f.speed,
                 f.position.x, f.position.y, f.position.z,
                 f.velocity.x, f.velocity.y, f.velocity.z,
                 f.acceleration.x, f.acceleration.y, f.acceleration.z,
                 f.orientation.w, f.orientation.x, f.orientation.y, f.orientation.z,
                 f.g_force.x, f.g_force.y, f.g_force.z} : Finite(c)
    /\ \A c \in {f.position.x, f.position.y, f.position.z} :
          AtMost(c, POSITION_LIMIT) /\ AtMost(Scaled(c, 0 - 1, 1), POSITION_LIMIT)
    /\ AtMost(f.speed, SPEED_LIMIT)
    /\ f.g_force.x.v * f.g_force.x.v + f.g_force.y.v * f.g_force.y.v
          + f.g_force.z.v * f.g_force.z.v <= G_FORCE_LIMIT * G_FORCE_LIMIT

\* A frame with every limited field on its limit, and one with position.x
\* 1000000 and the rest in range.
LimitFrame ==
    CoasterState(Fl(1), Vector3D(Fl(POSITION_LIMIT), Fl(0 - POSITION_LIMIT), Fl(200)),
                 Vector3D(Fl(10), Fl(0), Fl(0)), Vector3D(Fl(0), Fl(0), Fl(0)),
                 Quaternion(Fl(1), Fl(0), Fl(0), Fl(0)),
                 Vector3D(Fl(0), Fl(0), Fl(G_FORCE_LIMIT)), Fl(SPEED_LIMIT))
FarFrame == [LimitFrame EXCEPT !.position.x = Fl(1000000)]

\* C14: is_valid() is true exactly of the frames whose fields are all finite,
\* whose position components are within 10000 of zero, whose speed is at most
\* 200 and whose g-force magnitude is at most 50: true of the frame on all
\* three limits, false of the frame with position.x = 1000000.
C14_ValidIffWithinLimits ==
    (probe.op = "is_valid" /\ probe.output # None) =>
        /\ probe.output[1] = Within(probe.input[1])
        /\ probe.input[1] = LimitFrame => probe.output[1] = TRUE
        /\ probe.input[1] = FarFrame => probe.output[1] = FALSE

\* C14 witness: is_valid() has returned True for the frame on all three
\* limits.
C14_Witness ==
    /\ probe.op = "is_valid"
    /\ probe.input = Some(LimitFrame)
    /\ probe.output = Some(TRUE)

\* ------------------------------------------------- the wire formats
\* Bytes are 0..255; an unsigned 32-bit integer is the pair << high 16 bits,
\* low 16 bits >>.  struct.pack and struct.unpack for 'H' and 'I', in
\* little-endian ('<') and network ('!') byte order:
U16LE(n) == << n % 256, n \div 256 >>
\* The 16-bit fields of the framed protocol written low byte first.
U16LowFirst(n) == << n % 256, n \div 256 >>
U16BE(n) == << n \div 256, n % 256 >>
U32LE(p) == U16LE(p[2]) \o U16LE(p[1])
U32BE(p) == U16BE(p[1]) \o U16BE(p[2])
FromU16BE(b) == b[1] * 256 + b[2]
FromU32BE(b) == << b[1] * 256 + b[2], b[3] * 256 + b[4] >>
FromU32LE(b) == << b[4] * 256 + b[3], b[2] * 256 + b[1] >>
\* The integer a pair stands for, when it is within TLC's integers.
ToInt(p) == p[1] * 65536 + p[2]

MAGIC_START == 78
MAGIC_END == 76

\* NL2TelemetryClient._build_message
build_message(type_id, request_id, data) ==
    << MAGIC_START >> \o U16BE(type_id) \o U32BE(request_id) \o U16BE(Len(data))
        \o data \o << MAGIC_END >>

\* _parse_message without its look at the end marker.
ParseMessageAnyEnd(data) ==
    IF Len(data) < MIN_MESSAGE_SIZE
    THEN None
    ELSE IF data[1] # MAGIC_START
    THEN None
    ELSE LET data_size == FromU16BE(SubSeq(data, 8, 9))
             stop == IF 9 + data_size < Len(data) THEN 9 + data_size ELSE Len(data)
         IN  Some([type_id |-> FromU16BE(SubSeq(data, 2, 3)),
                   request_id |-> FromU32BE(SubSeq(data, 4, 7)),
                   data_size |-> data_size,
                   data |-> SubSeq(data, 10, stop)])

\* NL2TelemetryClient._parse_message on the bytes received
parse_message_bytes(data) ==
    IF Len(data) < MIN_MESSAGE_SIZE
    THEN None
    ELSE IF data[1] # MAGIC_START \/ data[Len(data)] # MAGIC_END
    THEN None
    ELSE LET data_size == FromU16BE(SubSeq(data, 8, 9))
             stop == IF 9 + data_size < Len(data) THEN 9 + data_size ELSE Len(data)
         IN  Some([type_id |-> FromU16BE(SubSeq(data, 2, 3)),
                   request_id |-> FromU32BE(SubSeq(data, 4, 7)),
                   data_size |-> data_size,
                   data |-> SubSeq(data, 10, stop)])

\* TelemetryParser.create_request_telemetry_packet
create_request_telemetry_packet == U32LE(<< 0, MSG_GET_TELEMETRY >>) \o U32LE(<< 0, 0 >>)
\* TelemetryParser.create_version_request_packet
create_version_request_packet == U32LE(<< 0, MSG_GET_VERSION >>) \o U32LE(<< 0, 0 >>)

\* The datagram record of the bytes of a UDP packet that is a header and
\* nothing more: struct.unpack('<II', data[0:8])
HeaderOnly(data) ==
    IF Len(data) < MIN_HEADER_SIZE THEN RuntDatagram
    ELSE Datagram(ToInt(FromU32LE(SubSeq(data, 1, 4))), ToInt(FromU32LE(SubSeq(data, 5, 8))),
                  EmptyPayload)

\* The type ids, the halves of the request ids and the payloads of the
\* envelopes built.
WireTypeIds == {0, 5, 255, 256, 4660, 65535}
WireHalves == {0, 1, 255, 256, 22136, 65535}
WireData == { << >>, << 1 >>, << MAGIC_END, 0, 255 >> }

WireInit ==
    /\ Constructed
    /\ \/ probe \in [op : {"_build_message"},
                     input : [type_id : WireTypeIds, request_id : WireHalves \X WireHalves,
                              data : WireData],
                     output : {None}]
       \/ probe \in [op : {"create_request_telemetry_packet", "create_version_request_packet"},
                     input : {None}, output : {None}]

\* _parse_message(_build_message(type_id, request_id, data))
BuildAndParse ==
    /\ probe.op = "_build_message"
    /\ probe.output = None
    /\ probe' = [probe EXCEPT !.output =
                    Some(parse_message_bytes(build_message(probe.input.type_id,
                                                           probe.input.request_id,
                                                           probe.input.data)))]
    /\ UNCHANGED << parser, connector_vars, callers, history_vars, arrivals, client_vars,
                    observer_vars >>

\* parse_packet(create_request_telemetry_packet()) and
\* parse_packet(create_version_request_packet()), on a new parser
RequestAndParse ==
    /\ probe.op \in {"create_request_telemetry_packet", "create_version_request_packet"}
    /\ probe.output = None
    /\ probe' = [probe EXCEPT !.output =
                    Some(parse_packet(NewParser,
                                      HeaderOnly(IF probe.op = "create_request_telemetry_packet"
                                                 THEN create_request_telemetry_packet
                                                 ELSE create_version_request_packet)).message)]
    /\ UNCHANGED << parser, connector_vars, callers, history_vars, arrivals, client_vars,
                    observer_vars >>

WireNext == BuildAndParse \/ RequestAndParse

SpecWire == WireInit /\ [][WireNext]_vars

\* C15: decoding the envelope _build_message built returns the type id and
\* the request id it was built from (and its payload); decoding the UDP
\* request packets returns message id 3, or 1 for the version request, with
\* frame number 0.
C15_RequestsRoundTrip ==
    probe.output # None =>
        /\ probe.op = "_build_message" =>
              /\ probe.output[1] # None
              /\ probe.output[1][1].type_id = probe.input.type_id
              /\ probe.output[1][1].request_id = probe.input.request_id
              /\ probe.output[1][1].data = probe.input.data
        /\ probe.op = "create_request_telemetry_packet" =>
              probe.output[1] = Some(TelemetryMessage(MSG_GET_TELEMETRY, 0, None))
        /\ probe.op = "create_version_request_packet" =>
              probe.output[1] = Some(TelemetryMessage(MSG_GET_VERSION, 0, None))

\* C15 witness: the envelope of type id 65535 and request id 2^32 - 1 has
\* been built and decoded to those two values.
C15_Witness ==
    /\ probe.op = "_build_message"
    /\ probe.input.type_id = 65535
    /\ probe.input.request_id = << 65535, 65535 >>
    /\ probe.output # None
    /\ probe.output[1] # None
    /\ probe.output[1][1].type_id = 65535
    /\ probe.output[1][1].request_id = << 65535, 65535 >>

\* ------------------------------------------ parse_packet on its own
\* The parser states parse_packet is applied in and the packets it is
\* applied to: too short for a header, or a header with a version, telemetry
\* or unknown message id and an empty, valid, short or out-of-range payload.
GapParsers ==
    { NewParser, [last_frame_number |-> 1, dropped_frames |-> 0],
      [last_frame_number |-> 3, dropped_frames |-> 2] }
GapDatagrams ==
    { Datagram(id, n, pl) :
        id \in {MSG_VERSION, MSG_TELEMETRY, 9}, n \in {0, 2, 5, MaxFrame},
        pl \in {EmptyPayload, RidePayload, ShortPayload, FarPayload} }
        \cup { RuntDatagram }

GapInit ==
    /\ Constructed
    /\ probe \in [op : {"parse_packet in state"},
                  input : [p : GapParsers, data : GapDatagrams], output : {None}]

\* parse_packet(data) on a parser in state p: the state it leaves and the
\* message it returns
ParsePacketInState ==
    /\ probe.op = "parse_packet in state"
    /\ probe.output = None
    /\ probe' = [probe EXCEPT !.output = Some(parse_packet(probe.input.p, probe.input.data))]
    /\ UNCHANGED << parser, connector_vars, callers, history_vars, arrivals, client_vars,
                    observer_vars >>

GapNext == ParsePacketInState

SpecGap == GapInit /\ [][GapNext]_vars

\* C30 (as claimed): a packet that does not decode to a telemetry frame
\* (parse_packet returns None or a message without a state) leaves
\* last_frame_number and dropped_frames as they were.
C30_OnlyFramesMoveGapState ==
    probe.output # None =>
        ( (probe.output[1].message = None \/ probe.output[1].message[1].state = None)
            => probe.output[1].parser = probe.input.p )

\* ------------------------------------------- the TCP request stream
\* Requests one client sends while the stream is followed.
MaxRequests == 3

\* The server's reply to the telemetry request request_id: a frame rendered
\* at second request_id.
ReplyTo(request_id) ==
    [Reply("N", REPLY_TELEMETRY, TELEMETRY_SIZE,
           [RideTelemetry EXCEPT !.rendered_frame = 60 * request_id], "L")
        EXCEPT !.request_id = request_id]

\* connect() on a client that has sent nothing yet.
StreamConnect ==
    /\ ~client.is_connected
    /\ stream = NoStream
    /\ TcpConnect

\* get_telemetry(request_id) up to its send: not connected, or send raises
\* (both return None), or the request is on its way and recv is entered.
\* The caller numbers its requests 1, 2, 3, ...
TelemetryRequest ==
    /\ stream.pc = "idle"
    /\ stream.sent < MaxRequests
    /\ LET request_id == stream.sent + 1
       IN  \/ /\ ~client.is_connected \/ client.socket = None
              /\ returned' = None
              /\ stream' = [stream EXCEPT !.request_id = request_id, !.from = None]
           \/ /\ client.is_connected /\ client.socket # None
              /\ returned' = None
              /\ stream' = [stream EXCEPT !.request_id = request_id, !.from = None]
           \/ /\ client.is_connected /\ client.socket # None
              /\ client.socket[1].connected
              /\ stream' = [stream EXCEPT !.pc = "recv", !.request_id = request_id,
                                          !.sent = request_id, !.from = None,
                                          !.unanswered = Append(stream.unanswered, request_id)]
              /\ UNCHANGED returned
    /\ UNCHANGED << parser, connector_vars, callers, history_vars, arrivals, client, tcp_last,
                    probe, status >>

\* The server answers the oldest request it has not answered.
ServerReply ==
    /\ stream.unanswered # << >>
    /\ stream' = [stream EXCEPT !.unanswered = Tail(stream.unanswered),
                                !.inbox = Append(stream.inbox, ReplyTo(Head(stream.unanswered)))]
    /\ UNCHANGED << parser, connector_vars, callers, history_vars, arrivals, client_vars,
                    probe, status >>

\* get_telemetry: socket.recv(1024) raises socket.timeout, nothing having
\* arrived within the timeout; return None
TelemetryTimeout ==
    /\ stream.pc = "recv"
    /\ stream.inbox = << >>
    /\ returned' = None
    /\ stream' = [stream EXCEPT !.pc = "idle"]
    /\ UNCHANGED << parser, connector_vars, callers, history_vars, arrivals, client, tcp_last,
                    probe, status >>

\* get_telemetry: socket.recv(1024) returns what has arrived, the first taken
\* replies of the stream; _parse_message and _parse_telemetry_data decode the
\* first of them (the payload is data[9:9+data_size]) and the frame is
\* returned.  request_id is not looked at.
TelemetryReceive ==
    /\ stream.pc = "recv"
    /\ stream.inbox # << >>
    /\ \E taken \in 1..Len(stream.inbox) :
          stream' = [stream EXCEPT !.pc = "idle",
                                   !.from = Some(parse_message(stream.inbox[1])[1].request_id),
                                   !.inbox = SubSeq(stream.inbox, taken + 1, Len(stream.inbox))]
    /\ returned' = TelemetryOf(stream.inbox[1])
    /\ UNCHANGED << parser, connector_vars, callers, history_vars, arrivals, client, tcp_last,
                    probe, status >>

StreamNext == StreamConnect \/ TelemetryRequest \/ ServerReply \/ TelemetryTimeout \/ TelemetryReceive

\* One TCP client and the server answering it, late or in time.
SpecStream == Init /\ [][StreamNext]_vars

\* C25 (as claimed): a frame get_telemetry(request_id) returns was decoded
\* from the reply to the request request_id.
C25_ReplyMatchesRequest ==
    (stream.pc = "idle" /\ returned # None) => stream.from = Some(stream.request_id)

\* ------------------------------------------ the TCP envelope decoder
\* The buffers decoded: envelopes with a right or wrong start marker, a
\* right or wrong end marker, a payload length field that is or is not the
\* length of the payload, and what is left of each when cut short.
EnvelopeBodies == { << >>, << 7 >>, << 7, MAGIC_END, 9 >>, << 1, 2, 3, 4, 5 >> }
EnvelopeSizes == {0, 1, 2, 3, 5, 6, 65535}
EnvelopeMarks == {MAGIC_START, MAGIC_END, 0}
Envelopes ==
    { << first >> \o U16BE(REPLY_TELEMETRY) \o U32BE(<< 0, 1 >>) \o U16BE(size) \o body
          \o << last >> :
        first \in EnvelopeMarks, last \in EnvelopeMarks, size \in EnvelopeSizes,
        body \in EnvelopeBodies }
EnvelopeBuffers ==
    Envelopes \cup { SubSeq(e, 1, k) : e \in Envelopes, k \in {0, 1, 5, 9} }

EnvelopeInit ==
    /\ Constructed
    /\ probe \in [op : {"_parse_message"}, input : EnvelopeBuffers, output : {None}]

\* _parse_message(data)
ParseMessage ==
    /\ probe.op = "_parse_message"
    /\ probe.output = None
    /\ probe' = [probe EXCEPT !.output = Some(parse_message_bytes(probe.input))]
    /\ UNCHANGED << parser, connector_vars, callers, history_vars, arrivals, client_vars,
                    observer_vars >>

EnvelopeNext == ParseMessage

SpecEnvelope == EnvelopeInit /\ [][EnvelopeNext]_vars

\* C24: _parse_message returns None for every buffer shorter than 10 bytes
\* and for every buffer whose first byte is not 'N' or whose last byte is
\* not 'L', and a message for every other buffer.
C24_EnvelopeChecks ==
    probe.output # None =>
        ( probe.output[1] = None
            <=> ( \/ Len(probe.input) < MIN_MESSAGE_SIZE
                  \/ probe.input[1] # MAGIC_START
                  \/ probe.input[Len(probe.input)] # MAGIC_END ) )

\* C24 witness: a buffer of ten bytes or more with the right start marker
\* and a wrong end marker has been refused.
C24_Witness ==
    /\ probe.op = "_parse_message"
    /\ Len(probe.input) >= MIN_MESSAGE_SIZE
    /\ probe.input[1] = MAGIC_START
    /\ probe.input[Len(probe.input)] # MAGIC_END
    /\ probe.output = Some(None)

\* C29 (as claimed): the payload of a decoded envelope has exactly as many
\* bytes as the payload length field declares and lies before the end
\* marker; an envelope whose payload length field is not its total length
\* minus 10 gives no message.
C29_PayloadAsDeclared ==
    (probe.output # None /\ probe.output[1] # None) =>
        /\ Len(probe.output[1][1].data) = probe.output[1][1].data_size
        /\ probe.output[1][1].data = SubSeq(probe.input, 10, Len(probe.input) - 1)
        /\ probe.output[1][1].data_size = Len(probe.input) - MIN_MESSAGE_SIZE

\* ------------------------------------------- the UDP decoder on its own
\* The payloads decoded: of every length about 72 bytes, with zero, in-range,
\* out-of-range and non-finite floats.
ProbePayloads ==
    { Payload(len, f, 0, ts) :
        len \in {0, MIN_PAYLOAD_SIZE - 1, MIN_PAYLOAD_SIZE, MIN_PAYLOAD_SIZE + 1,
                 MIN_PAYLOAD_SIZE + 4, 2 * MIN_PAYLOAD_SIZE},
        f \in {ZeroFloats, RideFloats, FarPayload.f, NaNPayload.f},
        ts \in {Fl(0), Fl(1), NaN} }

PayloadInit ==
    /\ Constructed
    /\ probe \in [op : {"parse_packet"}, input : ProbePayloads, output : {None}]

\* parse_packet, on a new parser, of the telemetry packet with frame number
\* 1 and the payload
ParseTelemetryPacket ==
    /\ probe.op = "parse_packet"
    /\ probe.output = None
    /\ probe' = [probe EXCEPT !.output =
                    Some(parse_packet(NewParser, Datagram(MSG_TELEMETRY, 1, probe.input)).message)]
    /\ UNCHANGED << parser, connector_vars, callers, history_vars, arrivals, client_vars,
                    observer_vars >>

PayloadNext == ParseTelemetryPacket

SpecPayload == PayloadInit /\ [][PayloadNext]_vars

\* C16: a telemetry packet whose payload is shorter than 72 bytes gives a
\* message without a frame; the payload of exactly 72 bytes with every float
\* zero gives a valid frame with speed 0 and orientation (1,0,0,0).
C16_PayloadLengthBoundary ==
    probe.output # None =>
        /\ probe.input.len < MIN_PAYLOAD_SIZE =>
              probe.output[1] = Some(TelemetryMessage(MSG_TELEMETRY, 1, None))
        /\ probe.input = ZeroPayload =>
              /\ probe.output[1] # None
              /\ probe.output[1][1].state # None
              /\ is_valid(probe.output[1][1].state[1])
              /\ probe.output[1][1].state[1].speed.v = 0
              /\ probe.output[1][1].state[1].orientation = Quaternion(Fl(1), Fl(0), Fl(0), Fl(0))

\* C16 witness: the 72-byte all-zero payload has been decoded to a frame.
C16_Witness ==
    /\ probe.op = "parse_packet"
    /\ probe.input = ZeroPayload
    /\ probe.output # None
    /\ probe.output[1] # None
    /\ probe.output[1][1].state # None
    /\ probe.output[1][1].state[1].speed.v = 0

\* C22 (as claimed): for a telemetry packet whose payload is long enough
\* and decodes to a position out of range, parse_packet returns a value
\* that differs from the one it returns for the same header with a payload
\* shorter than 72 bytes.
C22_RangeRejectionDistinct ==
    ( /\ probe.output # None
      /\ probe.input.len >= MIN_PAYLOAD_SIZE
      /\ probe.input.f = FarPayload.f
      /\ isfinite(probe.input.ts) )
        => probe.output[1]
              # parse_packet(NewParser,
                             Datagram(MSG_TELEMETRY, 1,
                                      [probe.input EXCEPT !.len = MIN_PAYLOAD_SIZE - 1])).message

\* C23 (as claimed): the orientation of a decoded frame has, before the
\* division by the norm, x, y and z equal to the 10th, 11th and 12th floats
\* of the payload and w equal to the 13th.
C23_QuaternionStoredOrder ==
    ( /\ probe.output # None
      /\ probe.output[1] # None
      /\ probe.output[1][1].state # None
      /\ probe.input.f = RideFloats )
        => LET orientation == probe.output[1][1].state[1].orientation
           IN  /\ orientation.x = probe.input.f[10]
               /\ orientation.y = probe.input.f[11]
               /\ orientation.z = probe.input.f[12]
               /\ orientation.w = probe.input.f[13]

\* ------------------------------------------------------- loop termination
\* Frames delivered while the loops are followed to their end.
MaxLiveFrames == 2

\* _request_loop: sendto succeeds; self.packets_sent += 1, the counter being
\* followed up to MaxSent only so that the loop can send without end.
RequestSendRepeated(t) ==
    /\ threads[t].kind = "request"
    /\ threads[t].pc = "send"
    /\ socket # None
    /\ socket[1] \in open_socks
    /\ packets_sent' = IF packets_sent < MaxSent THEN packets_sent + 1 ELSE packets_sent
    /\ threads' = [threads EXCEPT ![t].pc = "wait"]
    /\ UNCHANGED << parser, socket, open_socks, is_connected, is_running, stop_event,
                    receive_thread, request_thread, state_queue, state_callback,
                    packets_received, callers, history_vars, arrivals, client_vars, probe, observer_vars >>

\* One step of a loop thread: every blocking call of the loop body (recvfrom
\* with its 1 s timeout, the callback, the interval wait) is a step that
\* returns.  The queue never fills within MaxLiveFrames frames.
LiveThreadStep(t) ==
    \/ ReceiveLoopCheck(t) \/ ReceiveTimeout(t) \/ ReceiveError(t)
    \/ \E data \in LoopDatagrams :
          accepted < MaxLiveFrames /\ ReceiveTagged(t, data, STATE_MESSAGE_TYPE)
    \/ Put(t) \/ Callback(t)
    \/ RequestLoopCheck(t) \/ RequestSendRepeated(t) \/ RequestSendError(t) \/ RequestWait(t)

\* The caller thread starting and stopping the connected connector.
LiveCallerStep(c) ==
    \/ CallStart(c) \/ CallStop(c)
    \/ StartCheckConnected(c) \/ StartCheckRunning(c) \/ StartSetRunning(c)
    \/ StartClearEvent(c) \/ StartReceiveThread(c) \/ StartRequestThread(c)
    \/ StopCheck(c) \/ StopClearRunning(c) \/ StopSetEvent(c)
    \/ StopJoinReceive(c) \/ StopJoinedReceive(c)
    \/ StopJoinRequest(c) \/ StopJoinedRequest(c)

LiveNext ==
    \/ Enter
    \/ SetCallback
    \/ LiveCallerStep("main")
    \/ \E t \in ThreadIds : LiveThreadStep(t)

\* Each loop thread is scheduled again and again, and each of its blocking
\* calls returns; the caller is free never to call stop().
SpecLive == Init /\ [][LiveNext]_vars /\ \A t \in ThreadIds : WF_vars(LiveThreadStep(t))

StatusCall ==
    /\ status.pc \in {"idle", "returned"}
    /\ status' = [NoStatus EXCEPT !.pc = "get_stats"]
    /\ UNCHANGED << parser, connector_vars, callers, history_vars, arrivals, client_vars, probe, stream >>

\* get_connection_status: parser_stats = self.parser.get_stats()
StatusGetStats ==
    /\ status.pc = "get_stats"
    /\ status' = [status EXCEPT !.pc = "read", !.stats = Some(parser.dropped_frames)]
    /\ UNCHANGED << parser, connector_vars, callers, history_vars, arrivals, client_vars, probe, stream >>

\* The fields the returned dict reads from the connector, in the order the
\* dict display evaluates them.
StatusFields ==
    << is_connected, is_running, packets_received, packets_sent, Len(state_queue) >>

\* get_connection_status: the next entry of the returned dict is evaluated;
\* after the last one the dict is returned.  No lock is held.
StatusRead ==
    /\ status.pc = "read"
    /\ LET snap == Append(status.snap, StatusFields[Len(status.snap) + 1])
       IN  status' = [status EXCEPT !.snap = snap,
                                    !.pc = IF Len(snap) = Len(StatusFields) THEN "returned"
                                           ELSE "read"]
    /\ UNCHANGED << parser, connector_vars, callers, history_vars, arrivals, client_vars, probe, stream >>

\* The dict get_connection_status returned.
StatusDict ==
    [connected |-> status.snap[1], running |-> status.snap[2],
     packets_received |-> status.snap[3], packets_sent |-> status.snap[4],
     queue_size |-> status.snap[5], dropped_frames |-> status.stats[1]]

StatusNext ==
    \/ Enter
    \/ StatusCall \/ StatusGetStats \/ StatusRead
    \/ \E t \in ThreadIds : LiveThreadStep(t)

\* get_connection_status called while the loops run.
SpecStatus == Init /\ [][StatusNext]_vars

\* In every state of the connector the queue holds no more frames than
\* packets were received: a frame is queued after its packet was counted.
QueuedWereReceived == Len(state_queue) <= packets_received

====
